---- MODULE Spec2Model ----
(***************************************************************************)
(* Model of streamlit_app.py: the Marks -> Bar Chart page.                 *)
(*                                                                         *)
(* A text is a sequence of one-character strings.  A cell of a table is a  *)
(* record [k, s, n]: a text ("str"), a non-negative whole number ("num"),  *)
(* the missing marker NaN ("nan") or floating-point infinity ("inf").      *)
(* A table is a record [labels, rows]: the column labels in order and the  *)
(* rows, each row a sequence of cells, one per column.                     *)
(*                                                                         *)
(* Numbers are non-negative whole numbers; signs, decimals and the float   *)
(* formatting of a numeric column are left out.  pandas and Streamlit are  *)
(* modelled by what their calls do on these values.                        *)
(***************************************************************************)
EXTENDS Integers, Sequences, FiniteSets, TLC

(***************************************************************************)
(* Bounds of the model.                                                    *)
(***************************************************************************)
MaxRows == 3
MaxCols == 3
MaxUploadRows == 1
MaxLines == 3

(***************************************************************************)
(* Python str methods used by the program.                                 *)
(***************************************************************************)
UpperChars == <<"A","B","C","D","E","F","G","H","I","J","K","L","M",
                "N","O","P","Q","R","S","T","U","V","W","X","Y","Z">>
LowerChars == <<"a","b","c","d","e","f","g","h","i","j","k","l","m",
                "n","o","p","q","r","s","t","u","v","w","x","y","z">>
DigitChars == <<"0","1","2","3","4","5","6","7","8","9">>

IsSpace(c) == c \in {" ", "\t"}

LowerChar(c) ==
    IF \E i \in 1..26 : UpperChars[i] = c
    THEN LowerChars[CHOOSE i \in 1..26 : UpperChars[i] = c]
    ELSE c

StrLower(s) == [i \in 1..Len(s) |-> LowerChar(s[i])]

RECURSIVE LStrip(_)
LStrip(s) == IF s # <<>> /\ IsSpace(Head(s)) THEN LStrip(Tail(s)) ELSE s

RECURSIVE RStrip(_)
RStrip(s) ==
    IF s # <<>> /\ IsSpace(s[Len(s)]) THEN RStrip(SubSeq(s, 1, Len(s) - 1)) ELSE s

StrStrip(s) == RStrip(LStrip(s))

\* s.replace(old, new) for single characters
StrReplace(s, old, new) == [i \in 1..Len(s) |-> IF s[i] = old THEN new ELSE s[i]]

\* "," in s
HasComma(s) == \E i \in 1..Len(s) : s[i] = ","

FirstComma(s) == CHOOSE i \in 1..Len(s) : s[i] = "," /\ \A j \in 1..(i - 1) : s[j] # ","

\* s.split(",", 1) on a text that holds a comma
SplitFirstComma(s) ==
    <<SubSeq(s, 1, FirstComma(s) - 1), SubSeq(s, FirstComma(s) + 1, Len(s))>>

\* s.split(","): every field
RECURSIVE SplitComma(_)
SplitComma(s) ==
    IF HasComma(s)
    THEN <<SplitFirstComma(s)[1]>> \o SplitComma(SplitFirstComma(s)[2])
    ELSE <<s>>

\* s.split(): the whitespace-separated tokens
RECURSIVE SplitWords(_, _)
SplitWords(s, cur) ==
    IF s = <<>> THEN (IF cur = <<>> THEN <<>> ELSE <<cur>>)
    ELSE IF IsSpace(Head(s))
         THEN (IF cur = <<>> THEN <<>> ELSE <<cur>>) \o SplitWords(Tail(s), <<>>)
         ELSE SplitWords(Tail(s), Append(cur, Head(s)))

StrSplit(s) == SplitWords(s, <<>>)

\* " ".join(parts)
RECURSIVE JoinSpace(_)
JoinSpace(parts) ==
    IF parts = <<>> THEN <<>>
    ELSE IF Len(parts) = 1 THEN parts[1]
    ELSE parts[1] \o <<" ">> \o JoinSpace(Tail(parts))

\* str(n) of a non-negative whole number
RECURSIVE IntToStr(_)
IntToStr(n) ==
    IF n < 10 THEN <<DigitChars[n + 1]>>
    ELSE IntToStr(n \div 10) \o <<DigitChars[(n % 10) + 1]>>

IsDigit(c) == \E i \in 1..10 : DigitChars[i] = c

DigitVal(c) == (CHOOSE i \in 1..10 : DigitChars[i] = c) - 1

RECURSIVE DigitsToInt(_, _)
DigitsToInt(s, acc) ==
    IF s = <<>> THEN acc ELSE DigitsToInt(Tail(s), acc * 10 + DigitVal(Head(s)))

(***************************************************************************)
(* Cells.                                                                  *)
(***************************************************************************)
StrCell(s) == [k |-> "str", s |-> s, n |-> 0]
NumCell(n) == [k |-> "num", s |-> <<>>, n |-> n]
NaN == [k |-> "nan", s |-> <<>>, n |-> 0]
Inf == [k |-> "inf", s |-> <<>>, n |-> 0]

INF_TEXTS == { <<"i","n","f">>, <<"i","n","f","i","n","i","t","y">> }

\* the numeric parser applied to one text: surrounding whitespace is skipped,
\* digits give a number, "inf" gives infinity, anything else is NaN
ParseNumber(s) ==
    LET t == StrStrip(s) IN
    IF t # <<>> /\ \A i \in 1..Len(t) : IsDigit(t[i]) THEN NumCell(DigitsToInt(t, 0))
    ELSE IF StrLower(t) \in INF_TEXTS THEN Inf
    ELSE NaN

\* a to_numeric that parses texts only and takes any other cell for invalid
ToNumericTextOnly(c) == IF c.k = "str" THEN ParseNumber(c.s) ELSE NaN

\* pd.to_numeric(..., errors="coerce") on one cell
ToNumeric(c) == IF c.k = "str" THEN ParseNumber(c.s) ELSE c

\* .astype(str) on one cell; keepNA is the pandas build's treatment of a
\* missing value: kept missing (string dtype) or turned into the text "nan"
AsTypeStr(c, keepNA) ==
    CASE c.k = "str" -> c
      [] c.k = "num" -> StrCell(IntToStr(c.n))
      [] c.k = "inf" -> StrCell(<<"i","n","f">>)
      [] c.k = "nan" -> IF keepNA THEN NaN ELSE StrCell(<<"n","a","n">>)

\* .str.strip() on one cell
CellStrip(c) == IF c.k = "str" THEN StrCell(StrStrip(c.s)) ELSE c

(***************************************************************************)
(* clean_dataframe.                                                        *)
(***************************************************************************)
SUBJECT == <<"S","u","b","j","e","c","t">>
MARKS == <<"M","a","r","k","s">>

SubjectAliases ==
    { <<"s","u","b","j","e","c","t">>, <<"s","u","b","j","e","c","t","s">>,
      <<"n","a","m","e">>, <<"t","o","p","i","c">> }
MarksAliases ==
    { <<"m","a","r","k","s">>, <<"s","c","o","r","e">>,
      <<"s","c","o","r","e","s">>, <<"v","a","l","u","e">> }

Range(f) == { f[i] : i \in DOMAIN f }

\* the role a label alias-matches: the canonical label, or the label itself
AliasOf(c) ==
    LET cl == StrLower(StrStrip(c)) IN
    IF cl \in SubjectAliases THEN SUBJECT
    ELSE IF cl \in MarksAliases THEN MARKS
    ELSE c

\* rename_map applied by df.rename(columns=rename_map)
AliasRename(labels) == [i \in 1..Len(labels) |-> AliasOf(labels[i])]

\* df.rename(columns={df.columns[0]: "Subject", df.columns[1]: "Marks"}): a
\* rename by label; when both keys are the same label the later entry stays
PositionalRename(cols) ==
    [i \in 1..Len(cols) |->
        IF cols[i] = cols[2] THEN MARKS
        ELSE IF cols[i] = cols[1] THEN SUBJECT
        ELSE cols[i]]

\* df[name] = df.get(name, []): a column that exists is assigned to itself; a
\* list of length zero is assigned otherwise, which needs a table of no rows
SynthColumn(st, name, nrows) ==
    IF st.raised # "none" \/ name \in Range(st.labels) THEN st
    ELSE IF nrows > 0 THEN [st EXCEPT !.raised = "ValueError"]
    ELSE [st EXCEPT !.labels = Append(st.labels, name)]

\* a presence check that takes the positional path only when both labels are absent
EnsureColumnsBothAbsent(cols, nrows) ==
    IF SUBJECT \notin Range(cols) /\ MARKS \notin Range(cols)
    THEN IF Len(cols) >= 2
         THEN [raised |-> "none", labels |-> PositionalRename(cols)]
         ELSE SynthColumn(SynthColumn([raised |-> "none", labels |-> cols],
                                      SUBJECT, nrows), MARKS, nrows)
    ELSE [raised |-> "none", labels |-> cols]

\* "Ensure required columns exist"
EnsureColumns(cols, nrows) ==
    IF SUBJECT \notin Range(cols) \/ MARKS \notin Range(cols)
    THEN IF Len(cols) >= 2
         THEN [raised |-> "none", labels |-> PositionalRename(cols)]
         ELSE SynthColumn(SynthColumn([raised |-> "none", labels |-> cols],
                                      SUBJECT, nrows), MARKS, nrows)
    ELSE [raised |-> "none", labels |-> cols]

Positions(cols, name) == { i \in 1..Len(cols) : cols[i] = name }

\* df[name] when exactly one column bears the label
ColumnOf(cols, name) == CHOOSE i \in 1..Len(cols) : cols[i] = name

\* what the column accesses of lines 49 and 52 raise
AccessError(cols) ==
    IF Positions(cols, SUBJECT) = {} THEN "KeyError"
    ELSE IF Cardinality(Positions(cols, SUBJECT)) > 1 THEN "AttributeError"
    ELSE IF Positions(cols, MARKS) = {} THEN "KeyError"
    ELSE IF Cardinality(Positions(cols, MARKS)) > 1 THEN "TypeError"
    ELSE "none"

\* lines 49 and 52 on one row: the Subject and the Marks cell after coercion
CoerceRow(row, cols, keepNA) ==
    << CellStrip(AsTypeStr(row[ColumnOf(cols, SUBJECT)], keepNA)),
       ToNumeric(row[ColumnOf(cols, MARKS)]) >>

\* dropna(subset=["Subject", "Marks"]) and df[df["Subject"] != ""]
KeepRow(r) == r[1].k # "nan" /\ r[2].k # "nan" /\ r[1] # StrCell(<<>>)

\* drop_duplicates with keep="first"
DropDuplicatesFirst(rows) ==
    LET keep == { i \in 1..Len(rows) : \A j \in 1..(i - 1) : rows[j][1] # rows[i][1] }
        RECURSIVE Pick(_)
        Pick(i) == IF i > Len(rows) THEN <<>>
                   ELSE (IF i \in keep THEN <<rows[i]>> ELSE <<>>) \o Pick(i + 1)
    IN Pick(1)

\* drop_duplicates(subset=["Subject"], keep="last")
DropDuplicates(rows) ==
    LET keep == { i \in 1..Len(rows) :
                    \A j \in (i + 1)..Len(rows) : rows[j][1] # rows[i][1] }
        RECURSIVE Pick(_)
        Pick(i) == IF i > Len(rows) THEN <<>>
                   ELSE (IF i \in keep THEN <<rows[i]>> ELSE <<>>) \o Pick(i + 1)
    IN Pick(1)

EmptyDataset == [labels |-> <<SUBJECT, MARKS>>, rows |-> <<>>]

\* clean_dataframe(df): the exception it raises ("none" when it returns), the
\* column labels after line 46 and the table it returns
clean_dataframe(df, keepNA) ==
    LET ens == EnsureColumns(AliasRename(df.labels), Len(df.rows))
        err == IF ens.raised # "none" THEN ens.raised ELSE AccessError(ens.labels)
        coerced == [i \in 1..Len(df.rows) |-> CoerceRow(df.rows[i], ens.labels, keepNA)]
    IN  [ raised |-> err,
          columns |-> ens.labels,
          df |-> IF err # "none" THEN EmptyDataset
                 ELSE [labels |-> <<SUBJECT, MARKS>>,
                       rows |-> DropDuplicates(SelectSeq(coerced, KeepRow))] ]

\* example_df(n): the Subject list has n entries and the Marks list the first
\* n of five; pd.DataFrame needs lists of one length
EXAMPLE_MARKS == <<80, 72, 90, 65, 88>>

Min(a, b) == IF a < b THEN a ELSE b

SubjectName(i) ==
    StrCell(<<"S","u","b","j","e","c","t"," ">> \o IntToStr(i))

example_df(n) ==
    LET subjects == [i \in 1..n |-> SubjectName(i)]
        marks == SubSeq(EXAMPLE_MARKS, 1, Min(n, Len(EXAMPLE_MARKS)))
    IN  IF Len(subjects) # Len(marks)
        THEN [raised |-> "ValueError", df |-> EmptyDataset]
        ELSE [raised |-> "none",
              df |-> [labels |-> <<SUBJECT, MARKS>>,
                      rows |-> [i \in 1..n |-> <<subjects[i], NumCell(marks[i])>>]]]

(***************************************************************************)
(* pd.read_csv and the paste-mode parsing.                                 *)
(***************************************************************************)
Max(a, b) == IF a > b THEN a ELSE b

\* dtype inference of pd.read_csv on a table of text fields: an empty field
\* is missing; a column whose fields all parse as numbers holds numbers, any
\* other column keeps its texts
InferDtypes(rows) ==
    LET numeric(j) == \A i \in 1..Len(rows) :
                         rows[i][j] = <<>> \/ ParseNumber(rows[i][j]) # NaN
        cell(i, j) == IF rows[i][j] = <<>> THEN NaN
                      ELSE IF numeric(j) THEN ParseNumber(rows[i][j])
                      ELSE StrCell(rows[i][j])
    IN  [i \in 1..Len(rows) |-> [j \in 1..Len(rows[i]) |-> cell(i, j)]]

\* lines 125-126: the non-blank lines, and each with tab and semicolon
\* replaced by a comma
NonBlankLines(pasted) == SelectSeq(pasted, LAMBDA ln : StrStrip(ln) # <<>>)

NormLine(ln) == StrReplace(StrReplace(ln, "\t", ","), ";", ",")

\* pd.read_csv(io.StringIO(norm), header=None, names=["Subject", "Marks"]):
\* the parser expects as many fields as the first line has, two at least; a
\* later line with more is a ParserError, one with fewer is padded with
\* missing fields; the last two fields are the columns, the ones before them
\* the index
ReadCsvNames(lines) ==
    LET fields == [i \in 1..Len(lines) |-> SplitComma(NormLine(lines[i]))]
        expected == Max(2, Len(fields[1]))
        field(i, j) == IF j <= Len(fields[i]) THEN fields[i][j] ELSE <<>>
    IN  IF \E i \in 2..Len(lines) : Len(fields[i]) > expected
        THEN [raised |-> "ParserError", rows |-> <<>>]
        ELSE [raised |-> "none",
              rows |-> InferDtypes([i \in 1..Len(lines) |->
                           <<field(i, expected - 1), field(i, expected)>>])]

\* lines 133-137 on one line: s and m before .strip(). In
\*   s, m = " ".join(parts[:-1]), parts[-1] if len(parts) > 1 else (ln, "")
\* the conditional is the second element only, so a one-token line binds s to
\* the empty join and m to the tuple (ln, ""), which has no strip method
FallbackSplit(ln) ==
    IF HasComma(ln)
    THEN [s |-> SplitFirstComma(ln)[1], m |-> SplitFirstComma(ln)[2], tuple |-> FALSE]
    ELSE LET parts == StrSplit(ln) IN
         IF Len(parts) > 1
         THEN [s |-> JoinSpace(SubSeq(parts, 1, Len(parts) - 1)),
               m |-> parts[Len(parts)], tuple |-> FALSE]
         ELSE [s |-> JoinSpace(SubSeq(parts, 1, Len(parts) - 1)),
               m |-> ln, tuple |-> TRUE]

\* lines 131-139: the fallback loop over the lines as pasted; line 138 strips
\* s and m
FallbackRows(lines) ==
    IF \E i \in 1..Len(lines) : FallbackSplit(lines[i]).tuple
    THEN [raised |-> "AttributeError", rows |-> <<>>]
    ELSE [raised |-> "none",
          rows |-> [i \in 1..Len(lines) |->
                      << StrCell(StrStrip(FallbackSplit(lines[i]).s)),
                         StrCell(StrStrip(FallbackSplit(lines[i]).m)) >>]]

\* lines 125-139: the parse of a non-blank pasted text
ParsePasted(pasted) ==
    LET lines == NonBlankLines(pasted)
        strict == ReadCsvNames(lines)
        res == IF strict.raised = "none" THEN strict ELSE FallbackRows(lines)
    IN  [ path |-> IF strict.raised = "none" THEN "strict" ELSE "fallback",
          raised |-> res.raised,
          temp |-> [labels |-> <<SUBJECT, MARKS>>, rows |-> res.rows] ]

(***************************************************************************)
(* The inputs of a run of the page.                                        *)
(***************************************************************************)
MAX_INIT_ROWS == 30

\* column labels of an uploaded file: two Subject aliases, two Marks aliases
\* and two labels that match no alias
UploadLabels ==
    { <<"N","a","m","e">>, <<" ","T","o","p","i","c">>,
      <<"S","C","O","R","E">>, <<"v","a","l","u","e"," ">>,
      <<"A">>, <<"B">> }

\* sequences of n pairwise different members of S
DistinctSeqs(S, n) ==
    { l \in [1..n -> S] : \A i, j \in 1..n : l[i] = l[j] => i = j }

\* a row of c text fields that alternates a word and a number, starting with
\* either
ShapeRows(c) ==
    { [j \in 1..c |-> IF j % 2 = 1 THEN <<"M">> ELSE <<"7">>],
      [j \in 1..c |-> IF j % 2 = 1 THEN <<"7">> ELSE <<"M">>] }

\* uploaded files of c columns: pd.read_csv gives pairwise different labels
ShapeFiles(c) ==
    { [labels |-> l, rows |-> r] :
        l \in DistinctSeqs(UploadLabels, c),
        r \in UNION { [1..n -> ShapeRows(c)] : n \in 0..MaxUploadRows } }

\* the rows of an uploaded two-column file, as text fields
FileRowKinds ==
    { << <<" ","M">>, <<"7">> >>,
      << <<" ","M">>, <<" ","8">> >>,
      << <<"S">>, <<"7">> >>,
      << <<"S">>, <<" ","8">> >>,
      << <<" ">>, <<"7">> >>,
      << <<>>, <<"7">> >>,
      << <<"S">>, <<"x">> >>,
      << <<"S">>, <<>> >>,
      << <<"S">>, <<"i","n","f">> >> }

ValueFiles ==
    { [labels |-> <<SUBJECT, MARKS>>, rows |-> r] :
        r \in UNION { [1..n -> FileRowKinds] : n \in 0..MaxRows } }

\* the rows st.data_editor returns: the Subject column holds texts or the
\* missing marker, the Marks column numbers or the missing marker
EditRowKinds ==
    { << StrCell(<<" ","M">>), NumCell(7) >>,
      << StrCell(<<"M">>), NumCell(8) >>,
      << NaN, NumCell(7) >>,
      << StrCell(<<"S">>), NaN >> }

EditedTables ==
    { [labels |-> <<SUBJECT, MARKS>>, rows |-> r] :
        r \in UNION { [1..n -> EditRowKinds] : n \in 0..MaxRows } }

\* the lines of a pasted text
LineKinds ==
    { <<"M",","," ","7">>,
      <<"S",";","8">>,
      <<"E","\t","9">>,
      <<"M"," ","7">>,
      <<"S"," ","t",";","8">>,
      <<"E">>,
      <<"S",",","8",",","1">>,
      <<"M",",","i","n","f">>,
      <<" ">> }

PastedTexts == UNION { [1..n -> LineKinds] : n \in 0..MaxLines }

(***************************************************************************)
(* One run of the page script, step by step.                               *)
(*   pc          position in the script                                    *)
(*   input_mode  the mode chosen in the sidebar                            *)
(*   init_rows   the starting row count of the editable table (0: unset)   *)
(*   df_init     the seed table of the editable table                      *)
(*   pasted      the pasted text, as its lines                             *)
(*   path        how the pasted text was parsed: strict or fallback        *)
(*   temp        the table handed to clean_dataframe                       *)
(*   columns     df.columns in clean_dataframe after line 46               *)
(*   df          the dataset                                               *)
(*   raised      the exception that ended the run, and raised_in where     *)
(*   ui          the elements the run has shown, in order                  *)
(***************************************************************************)
VARIABLES pc, input_mode, init_rows, df_init, pasted, path, temp, columns, df,
          raised, raised_in, ui

vars == <<pc, input_mode, init_rows, df_init, pasted, path, temp, columns, df,
          raised, raised_in, ui>>

NoTable == [labels |-> <<>>, rows |-> <<>>]

Init ==
    /\ pc = "input"
    /\ input_mode = "none"
    /\ init_rows = 0
    /\ df_init = NoTable
    /\ pasted = <<>>
    /\ path = "none"
    /\ temp = NoTable
    /\ columns = <<>>
    /\ df = NoTable
    /\ raised = "none"
    /\ raised_in = "none"
    /\ ui = <<>>

\* df = clean_dataframe(t): the call of lines 114, 140 and 154
CallClean(t) ==
    \E keepNA \in BOOLEAN :
        LET res == clean_dataframe(t, keepNA) IN
        /\ temp' = t
        /\ columns' = res.columns
        /\ df' = res.df
        /\ raised' = res.raised
        /\ raised_in' = IF res.raised = "none" THEN "none" ELSE "clean_dataframe"
        /\ pc' = IF res.raised = "none" THEN "preview" ELSE "crashed"

\* df = example_df(5): lines 142 and 156
UseExample ==
    /\ df' = example_df(5).df
    /\ raised' = example_df(5).raised
    /\ raised_in' = IF example_df(5).raised = "none" THEN "none" ELSE "example_df"
    /\ pc' = IF example_df(5).raised = "none" THEN "preview" ELSE "crashed"
    /\ UNCHANGED <<temp, columns>>

\* lines 93-114: the editable table
EditTable ==
    /\ pc = "input"
    /\ input_mode' = "Edit a table"
    /\ \E n \in 1..MAX_INIT_ROWS :
        /\ init_rows' = n
        /\ df_init' = example_df(n).df
        /\ IF example_df(n).raised # "none"
           THEN /\ raised' = example_df(n).raised
                /\ raised_in' = "example_df"
                /\ pc' = "crashed"
                /\ UNCHANGED <<temp, columns, df>>
           ELSE \E df_edit \in EditedTables \cup {example_df(n).df} :
                    CallClean(df_edit)
    /\ UNCHANGED <<pasted, path, ui>>

\* lines 116-142: the pasted text
PasteList ==
    /\ pc = "input"
    /\ input_mode' = "Paste list/CSV"
    /\ \E text \in PastedTexts :
        /\ pasted' = text
        /\ IF NonBlankLines(text) # <<>>
           THEN LET parsed == ParsePasted(text) IN
                /\ path' = parsed.path
                /\ IF parsed.raised # "none"
                   THEN /\ raised' = parsed.raised
                        /\ raised_in' = "paste"
                        /\ pc' = "crashed"
                        /\ UNCHANGED <<temp, columns, df>>
                   ELSE CallClean(parsed.temp)
           ELSE /\ UseExample
                /\ UNCHANGED path
    /\ UNCHANGED <<init_rows, df_init, ui>>

\* lines 144-156: the uploaded file; no file gives the example
UploadCsv ==
    /\ pc = "input"
    /\ input_mode' = "Upload CSV"
    /\ \/ \E file \in ValueFiles \cup UNION { ShapeFiles(c) : c \in 1..MaxCols } :
            CallClean([labels |-> file.labels, rows |-> InferDtypes(file.rows)])
       \/ UseExample
    /\ UNCHANGED <<init_rows, df_init, pasted, path, ui>>

\* lines 158-160: the preview of the dataset
Preview ==
    /\ pc = "preview"
    /\ ui' = Append(ui, "dataframe")
    /\ pc' = "check"
    /\ UNCHANGED <<input_mode, init_rows, df_init, pasted, path, temp, columns, df,
                   raised, raised_in>>

\* the warning without st.stop()
EmptyCheckNoStop ==
    /\ pc = "check"
    /\ ui' = IF df.rows = <<>> THEN Append(ui, "warning") ELSE ui
    /\ pc' = "sort"
    /\ UNCHANGED <<input_mode, init_rows, df_init, pasted, path, temp, columns, df,
                   raised, raised_in>>

\* lines 162-165: an empty dataset gives the warning and st.stop()
EmptyCheck ==
    /\ pc = "check"
    /\ IF df.rows = <<>>
       THEN /\ ui' = Append(ui, "warning")
            /\ pc' = "stopped"
       ELSE /\ ui' = ui
            /\ pc' = "sort"
    /\ UNCHANGED <<input_mode, init_rows, df_init, pasted, path, temp, columns, df,
                   raised, raised_in>>

\* Marks a >= Marks b, for numbers and infinity
MarksGeq(a, b) == a.k = "inf" \/ (a.k = "num" /\ b.k = "num" /\ a.n >= b.n)

\* df.sort_values("Marks", ascending=False): the order of equal Marks is the
\* sorting algorithm's
SortedDescending(rows) ==
    LET n == Len(rows)
        perms == { p \in [1..n -> 1..n] : \A i, j \in 1..n : p[i] = p[j] => i = j }
    IN  { [i \in 1..n |-> rows[p[i]]] : p \in
            { q \in perms : \A i \in 1..(n - 1) :
                               MarksGeq(rows[q[i]][2], rows[q[i + 1]][2]) } }

\* lines 167-169: the optional sort
SortBars ==
    /\ pc = "sort"
    /\ \E sort_bars \in BOOLEAN :
        IF sort_bars
        THEN \E sorted \in SortedDescending(df.rows) : df' = [df EXCEPT !.rows = sorted]
        ELSE df' = df
    /\ pc' = "chart"
    /\ UNCHANGED <<input_mode, init_rows, df_init, pasted, path, temp, columns,
                   raised, raised_in, ui>>

\* lines 171-193: the chart
BuildChart ==
    /\ pc = "chart"
    /\ ui' = Append(ui, "chart")
    /\ pc' = "png"
    /\ UNCHANGED <<input_mode, init_rows, df_init, pasted, path, temp, columns, df,
                   raised, raised_in>>

\* lines 195-206: the PNG download, or the hint when the rasterizer raises
PngExport ==
    /\ pc = "png"
    /\ \E rasterized \in BOOLEAN :
        ui' = Append(ui, IF rasterized THEN "png_download" ELSE "info")
    /\ pc' = "csv"
    /\ UNCHANGED <<input_mode, init_rows, df_init, pasted, path, temp, columns, df,
                   raised, raised_in>>

\* lines 208-218: the CSV download
CsvExport ==
    /\ pc = "csv"
    /\ ui' = Append(ui, "csv_download")
    /\ pc' = "done"
    /\ UNCHANGED <<input_mode, init_rows, df_init, pasted, path, temp, columns, df,
                   raised, raised_in>>

\* the next interaction runs the script again from the top
Rerun ==
    /\ pc \in {"done", "stopped", "crashed"}
    /\ pc' = "input"
    /\ input_mode' = "none"
    /\ init_rows' = 0
    /\ df_init' = NoTable
    /\ pasted' = <<>>
    /\ path' = "none"
    /\ temp' = NoTable
    /\ columns' = <<>>
    /\ df' = NoTable
    /\ raised' = "none"
    /\ raised_in' = "none"
    /\ ui' = <<>>

Next ==
    \/ EditTable
    \/ PasteList
    \/ UploadCsv
    \/ Preview
    \/ EmptyCheck
    \/ SortBars
    \/ BuildChart
    \/ PngExport
    \/ CsvExport
    \/ Rerun

Spec == Init /\ [][Next]_vars

(***************************************************************************)
(* Properties.                                                             *)
(***************************************************************************)
\* clean_dataframe was called on temp in this run
CleanCalled == temp # NoTable

\* clean_dataframe has just returned the dataset df for the table temp
Normalized == CleanCalled /\ pc = "preview"

\* the Subject and Marks cell of row i of temp, in the columns that bear the
\* canonical labels after line 46
SubjectCell(i) == temp.rows[i][ColumnOf(columns, SUBJECT)]
MarksCell(i) == temp.rows[i][ColumnOf(columns, MARKS)]

\* C1: normalize (clean_dataframe) returns a dataset and never raises, for
\* every table: any number of columns, any labels, any cell values.
C1_NormalizeNeverRaises == raised_in # "clean_dataframe"

\* C2: every record normalize returns has a Subject that is a non-empty text
\* without leading or trailing whitespace and a Marks value that is a finite
\* number, and no two records have the same Subject.
C2_CanonicalRecords ==
    Normalized =>
        /\ \A i \in 1..Len(df.rows) :
            /\ df.rows[i][1].k = "str"
            /\ df.rows[i][1].s # <<>>
            /\ ~IsSpace(df.rows[i][1].s[1])
            /\ ~IsSpace(df.rows[i][1].s[Len(df.rows[i][1].s)])
            /\ df.rows[i][2].k = "num"
        /\ \A i, j \in 1..Len(df.rows) : df.rows[i][1] = df.rows[j][1] => i = j

\* C3: deduplication is last-write-wins: of the valid rows, exactly those
\* with no later valid row of the same Subject are returned, each with its
\* own Marks, in input order.
C3_LastWriteWins ==
    Normalized =>
        \E keepNA \in BOOLEAN :
            LET co == [i \in 1..Len(temp.rows) |-> CoerceRow(temp.rows[i], columns, keepNA)]
                valid == { i \in 1..Len(temp.rows) : KeepRow(co[i]) }
                last == { i \in valid : \A j \in valid : j > i => co[j][1] # co[i][1] }
            IN  /\ Len(df.rows) = Cardinality(last)
                /\ \A i \in last : df.rows[Cardinality({ j \in last : j <= i })] = co[i]

\* the rows (Math,7), (Sci,7), (Math,8) give (Sci,7), (Math,8)
C3_Witness ==
    /\ Normalized
    /\ temp.rows = << <<StrCell(<<" ","M">>), NumCell(7)>>,
                      <<StrCell(<<"S">>), NumCell(7)>>,
                      <<StrCell(<<" ","M">>), NumCell(8)>> >>
    /\ df.rows = << <<StrCell(<<"S">>), NumCell(7)>>, <<StrCell(<<"M">>), NumCell(8)>> >>

\* C4: normalize is idempotent: the dataset it returns, presented again as a
\* table labelled Subject and Marks, normalizes to itself.
C4_Idempotent ==
    Normalized =>
        \A keepNA \in BOOLEAN :
            /\ clean_dataframe(df, keepNA).raised = "none"
            /\ clean_dataframe(df, keepNA).df = df

\* a run where normalize trimmed, parsed, dropped a row and kept two
C4_Witness ==
    /\ Normalized
    /\ Len(temp.rows) = 3
    /\ Len(df.rows) = 2
    /\ \E i \in 1..3 : MarksCell(i).k = "str" /\ ToNumeric(MarksCell(i)) = df.rows[2][2]
    /\ \E i \in 1..3 : SubjectCell(i).k = "str" /\ SubjectCell(i) # df.rows[1][1]
                        /\ CellStrip(SubjectCell(i)) = df.rows[1][1]

\* C5: the parse of a non-blank pasted text never raises, on the strict path
\* and on the fallback path.
C5_PasteParserNeverRaises == raised_in # "paste"

\* C6: a run whose dataset has no record shows the warning and stops before
\* the sort, the chart and both exports; those are reached only with a record.
C6_EmptyStops ==
    /\ pc \in {"sort", "chart", "png", "csv", "done"} =>
            df.rows # <<>> /\ "warning" \notin Range(ui)
    /\ pc = "stopped" => df.rows = <<>> /\ ui = <<"dataframe", "warning">>
    /\ Range(ui) \cap {"chart", "png_download", "info", "csv_download"} # {} =>
            df.rows # <<>>

C6_Witness == pc = "stopped" /\ CleanCalled /\ temp.rows # <<>> /\ "warning" \in Range(ui)

\* C7: in the editable-table mode the seed table is built without error and
\* has exactly as many rows as requested, for every count from 1 to 30.
C7_SeedTable ==
    input_mode = "Edit a table" =>
        raised_in # "example_df" /\ Len(df_init.rows) = init_rows

\* exactly one of the two roles is alias-matched by the labels of temp
OneRoleMatched ==
    (SUBJECT \in Range(AliasRename(temp.labels))) #
        (MARKS \in Range(AliasRename(temp.labels)))

\* C8 as stated: when exactly one role is alias-matched the positional
\* fallback is not applied: every column keeps the label alias matching gave.
C8_NoFallbackWhenOneMatched ==
    CleanCalled /\ OneRoleMatched =>
        \A i \in 1..Len(temp.labels) : columns[i] = AliasOf(temp.labels[i])

\* C8 amended: the positional fallback is skipped only when both roles are
\* alias-matched; otherwise, in a table of two columns or more, the columns
\* with the second column's label become Marks, the others with the first
\* column's label become Subject, and the remaining columns keep their label.
C8_FallbackUnlessBothMatched ==
    CleanCalled =>
        LET a == AliasRename(temp.labels) IN
        /\ SUBJECT \in Range(a) /\ MARKS \in Range(a) => columns = a
        /\ (SUBJECT \notin Range(a) \/ MARKS \notin Range(a)) /\ Len(a) >= 2 =>
            /\ Len(columns) = Len(a)
            /\ \A i \in 1..Len(a) :
                columns[i] = IF a[i] = a[2] THEN MARKS
                             ELSE IF a[i] = a[1] THEN SUBJECT
                             ELSE a[i]

\* a Marks alias in the first column is relabelled Subject by position
C8_Witness ==
    /\ Normalized
    /\ OneRoleMatched
    /\ AliasOf(temp.labels[1]) = MARKS
    /\ columns[1] = SUBJECT
    /\ df.rows # <<>>

\* C9: no record of the dataset comes from a row whose Subject cell is empty,
\* whitespace-only or missing, or whose Marks cell is missing or no number.
C9_HardFilter ==
    Normalized =>
        \A r \in 1..Len(df.rows) :
            \E i \in 1..Len(temp.rows) :
                /\ SubjectCell(i).k # "nan"
                /\ SubjectCell(i).k = "str" => StrStrip(SubjectCell(i).s) # <<>>
                /\ ToNumeric(MarksCell(i)).k # "nan"
                /\ df.rows[r] = CoerceRow(temp.rows[i], columns, TRUE)

\* the row the fallback path is said to give for one line
C10_Row(ln) ==
    LET nl == NormLine(ln)
        parts == StrSplit(nl)
    IN  IF HasComma(nl)
        THEN << StrCell(StrStrip(SplitFirstComma(nl)[1])),
                StrCell(StrStrip(SplitFirstComma(nl)[2])) >>
        ELSE IF Len(parts) > 1
        THEN << StrCell(JoinSpace(SubSeq(parts, 1, Len(parts) - 1))),
                StrCell(parts[Len(parts)]) >>
        ELSE << StrCell(StrStrip(nl)), StrCell(<<>>) >>

\* C10: on the fallback path every non-blank line, with tabs and semicolons
\* replaced by commas, gives one row: split at the first comma, or else the
\* last token is Marks and the tokens before it Subject, or else the whole
\* line is Subject and Marks is empty.
C10_FallbackSplit ==
    path = "fallback" =>
        /\ raised_in # "paste"
        /\ temp.rows = [i \in 1..Len(NonBlankLines(pasted)) |->
                            C10_Row(NonBlankLines(pasted)[i])]

====
